---- MODULE Spec2Model ----
(***************************************************************************)
(* Verification model of Dress to Impress (impress-2020):                  *)
(*   - the Layer Compositor, getVisibleLayers (app/useOutfitAppearance.js) *)
(*   - the Render Worker Pool of /api/assetImage: createPagePool,          *)
(*     resetPagePool, handle, loadAndScreenshotImage                       *)
(* SpecLayers explores getVisibleLayers over bounded appearances.          *)
(* Spec explores the page pool under concurrent requests, timer resets and  *)
(* browser disconnects.                                                     *)
(* SpecProxy explores /api/assetProxy, SpecOverlap a pool reset under       *)
(* load, SpecLive the pool under fair scheduling, SpecAuth the auth tokens  *)
(* of server/db.js, SpecSync syncToDb of server/types/Item.js, SpecPreload  *)
(* usePreloadLayers, SpecCanvas the canvas image components and SpecFetch   *)
(* useFetch.                                                                *)
(***************************************************************************)
EXTENDS Integers, Sequences, FiniteSets, TLC

(* ---------------- bounds of the compositor inputs ---------------- *)
NumZones == 3
MaxDepth == 1
MaxPetLayers == 1
MaxItemLayers == 1
MaxItems == 2
MaxRestricted == 1

(* ---------------- bounds of the asset proxy runs ---------------- *)
ProxyRequests == 2   \* requests to /api/assetProxy
MaxChunks == 2       \* chunks of an upstream body

(* ---------------- bounds of the auth tokens ---------------- *)
MaxDays == 9         \* days the clock runs
MaxUsers == 2        \* user ids
MaxTokens == 1       \* tokens createAuthToken issues

(* ---------------- bounds of syncToDb ---------------- *)
MaxKeys == 2         \* primary keys of the table
MaxData == 2         \* values of a row's data
MaxRows == 2         \* incoming rows of one call
MaxSyncs == 2        \* calls of syncToDb

(* ---------------- bounds of the React hooks ---------------- *)
MaxEffects == 3      \* runs of the effect of the canvas image components
MaxFetches == 3      \* runs of the effect of useFetch
MaxInputs == 3       \* values of the layers prop a component instance receives
MaxImages == 2       \* layers, and so images, of one layers list

(* ---------------- bounds of the render pool runs ---------------- *)
LoadRequests == 5    \* requests of a run that saturates one pool
ResetRequests == 2   \* requests of a run across several pools
MaxResets == 2       \* resetPagePool calls of such a run
MaxCrashes == 1      \* unexpected browser terminations of such a run
CrashRequests == 2   \* requests of a run whose browser crashes while its pool fills
OverlapRequests == 5 \* requests of a run across one timer reset

(* ---------------- constants of api/assetImage ---------------- *)
PoolMin == 4
PoolMax_five == PoolMin + 1
PoolMax == 4

VARIABLES
    petAppearance,    \* first argument of getVisibleLayers (Null when absent)
    itemAppearances,  \* second argument: sequence of item appearances
    visibleLayers,    \* completion of the last getVisibleLayers call
    composed,         \* TRUE once getVisibleLayers has been called
    firstLayers,      \* completion of the call before the last one (Null when none)
    recomposed        \* TRUE once getVisibleLayers has been called a second time

layerVars == <<petAppearance, itemAppearances, visibleLayers, composed, firstLayers,
               recomposed>>

VARIABLES
    PAGE_POOL,        \* the module-level current pool (pools are numbered by creation)
    browser,          \* per pool: state of its browserPromise / browser
    pagesCreating,    \* per pool: factory create() calls still in flight
    pagesCreated,     \* per pool: number of pages the factory has produced
    available,        \* per pool: idle pages, in lending order
    loans,            \* per pool: pages currently lent out
    waiting,          \* per pool: queued acquire() calls, oldest first
    destroyed,        \* per pool: pages the pool destroyed after a failed validate
    draining,         \* per pool: drain() has been called
    drain,            \* per pool: progress of the drain().then(close) chain
    trigger           \* per pool: what ran the resetPagePool that retired it

poolVars == <<PAGE_POOL, browser, pagesCreating, pagesCreated, available, loans,
              waiting, destroyed, draining, drain, trigger>>

VARIABLES
    budget,           \* the run explored: how many requests, resets and crashes occur
    pc,               \* per request: position in handle / loadAndScreenshotImage
    currentPagePool,  \* per request: the local const currentPagePool
    page,             \* per request: the page it holds (NoPage when none)
    response,         \* the HTTP response sent last (Null before the first)
    exit,             \* history: how loadAndScreenshotImage settled for that response
    poolAtAcquire,    \* history: PAGE_POOL when the request in flight called acquire
    rejected,         \* per request: the waits of its Promise.any that have rejected
    query             \* req.query of the request that entered handle last

reqVars == <<budget, pc, currentPagePool, page, response, exit, poolAtAcquire,
             rejected, query>>

VARIABLES
    proxy,            \* per asset proxy request: its position, fetch and response
    auth,             \* getUserIdFromToken: the token, the clock and the completion
    sync,             \* syncToDb: the table, the incoming rows and the queries made
    preload,          \* usePreloadLayers: its state, effects and image loads
    canvas,           \* OutfitCanvasImage / EaselBitmap: stage, listeners and effect
    fetcher           \* useFetch: its state, effects and fetches

webVars == <<proxy, auth, sync, preload, canvas, fetcher>>

vars == <<layerVars, poolVars, reqVars, webVars>>

(* ---------------- JavaScript values ---------------- *)
Null == [isNull |-> TRUE]

Return(v) == [threw |-> FALSE, value |-> v]

Throw(e) == [threw |-> TRUE, value |-> <<>>, error |-> e]

ZoneIds == 1..NumZones

Depths == 0..MaxDepth

SeqsUpTo(S, n) == UNION {[1..k -> S] : k \in 0..n}

\* zone objects as selected by the GraphQL fragments: { id, depth }
Zones == [id : ZoneIds, depth : Depths]

\* layer ids are unique per (appearance, position)
MakeLayers(owner, zs) ==
    [j \in 1..Len(zs) |-> [id |-> 10 * owner + j, zone |-> zs[j]]]

MakeRestricted(ids) == [j \in 1..Len(ids) |-> [id |-> ids[j]]]

PetAppearances ==
    {[layers |-> MakeLayers(0, zs), restrictedZones |-> MakeRestricted(rs)] :
        zs \in SeqsUpTo(Zones, MaxPetLayers),
        rs \in SeqsUpTo(ZoneIds, MaxRestricted)}

ItemShapes ==
    [layers : SeqsUpTo(Zones, MaxItemLayers),
     restrictedZones : SeqsUpTo(ZoneIds, MaxRestricted)] \cup {Null}

MakeItem(i, shape) ==
    IF shape = Null THEN Null
    ELSE [layers |-> MakeLayers(i, shape.layers),
          restrictedZones |-> MakeRestricted(shape.restrictedZones)]

(* ---------------- Array helpers ---------------- *)
RECURSIVE Flat(_)
Flat(ss) == IF ss = <<>> THEN <<>> ELSE Head(ss) \o Flat(Tail(ss))

RECURSIVE FilterNonNull(_)
FilterNonNull(s) ==
    IF s = <<>> THEN <<>>
    ELSE IF Head(s) = Null THEN FilterNonNull(Tail(s))
         ELSE <<Head(s)>> \o FilterNonNull(Tail(s))

\* allLayers.findIndex((l2) => l2.zone.id === zoneId), 1-based; 0 if none
FindIndex(layers, zoneId) ==
    IF \E k \in 1..Len(layers) : layers[k].zone.id = zoneId
    THEN CHOOSE k \in 1..Len(layers) :
            /\ layers[k].zone.id = zoneId
            /\ \A m \in 1..(k - 1) : layers[m].zone.id # zoneId
    ELSE 0

RECURSIVE FilterIdx(_, _, _)
\* layers.filter((l, i) => keep(i)), for keep given as a set of indices
FilterIdx(layers, keep, i) ==
    IF i > Len(layers) THEN <<>>
    ELSE (IF i \in keep THEN <<layers[i]>> ELSE <<>>)
            \o FilterIdx(layers, keep, i + 1)

Includes(ids, x) == \E k \in 1..Len(ids) : ids[k] = x

\* the comparator of visibleLayers.sort
CompareDepth(a, b) == a.zone.depth - b.zone.depth

\* a sort that puts x in front of the elements it compares equal to
InsertSorted_beforeTies(sorted, x) ==
    LET n == Cardinality({k \in 1..Len(sorted) : CompareDepth(sorted[k], x) < 0})
    IN  SubSeq(sorted, 1, n) \o <<x>> \o SubSeq(sorted, n + 1, Len(sorted))

\* insertion of x behind every element that does not compare greater
InsertSorted(sorted, x) ==
    LET n == Cardinality({k \in 1..Len(sorted) : CompareDepth(sorted[k], x) <= 0})
    IN  SubSeq(sorted, 1, n) \o <<x>> \o SubSeq(sorted, n + 1, Len(sorted))

RECURSIVE SortFrom(_, _, _)
SortFrom(s, i, acc) ==
    IF i > Len(s) THEN acc ELSE SortFrom(s, i + 1, InsertSorted(acc, s[i]))

\* Array.prototype.sort with CompareDepth (stable)
SortByDepth(s) == SortFrom(s, 1, <<>>)

(* ---------------- getVisibleLayers ---------------- *)
\* an encounter order that puts the item appearances in front of the base
AllLayers_itemsFirst(pet, items) ==
    Flat([k \in 1..(Len(FilterNonNull(items \o <<pet>>))) |->
            FilterNonNull(items \o <<pet>>)[k].layers])

\* [petAppearance, ...itemAppearances].filter((a) => a).map((a) => a.layers).flat()
AllLayers(pet, items) ==
    Flat([k \in 1..(Len(FilterNonNull(<<pet>> \o items))) |->
            FilterNonNull(<<pet>> \o items)[k].layers])

\* a dedup that compares l2.id === l.id instead of the zone ids
DedupedLayers_byLayerId(allLayers) ==
    FilterIdx(allLayers,
              {i \in 1..Len(allLayers) :
                  \A m \in 1..(i - 1) : allLayers[m].id # allLayers[i].id},
              1)

\* allLayers.filter((l, i) => allLayers.findIndex(same zone id) === i)
DedupedLayers(allLayers) ==
    FilterIdx(allLayers,
              {i \in 1..Len(allLayers) : FindIndex(allLayers, allLayers[i].zone.id) = i},
              1)

\* a restricted-zone list computed from allAppearances
RestrictedSources_withPet(pet, items) == <<pet>> \o items

\* the appearances whose restrictedZones are read: itemAppearances only
RestrictedSources(pet, items) == items

\* restrictions that count only for appearances that draw something
RestrictedZonesOf_drawnOnly(l) ==
    IF Len(l.layers) = 0 THEN <<>> ELSE l.restrictedZones

\* (l) => l.restrictedZones
RestrictedZonesOf(l) == l.restrictedZones

AllRestrictedZoneIds(pet, items) ==
    LET zs == Flat([k \in 1..Len(RestrictedSources(pet, items)) |->
                        RestrictedZonesOf(RestrictedSources(pet, items)[k])])
    IN  [k \in 1..Len(zs) |-> zs[k].id]

\* a function without the early return
BaseAbsent_never(pet) == FALSE

\* !petAppearance
BaseAbsent(pet) == pet = Null

getVisibleLayers(pet, items) ==
    IF BaseAbsent(pet) THEN Return(<<>>)
    ELSE IF \E k \in 1..Len(items) : items[k] = Null
         THEN Throw("TypeError")   \* l.restrictedZones of a null entry
         ELSE LET allLayers == DedupedLayers(AllLayers(pet, items))
                  restricted == AllRestrictedZoneIds(pet, items)
                  visible == FilterIdx(allLayers,
                                {i \in 1..Len(allLayers) :
                                    ~Includes(restricted, allLayers[i].zone.id)},
                                1)
              IN  Return(SortByDepth(visible))

\* a sort that runs on the layers list of the base appearance itself
InputsAfter_sortedInPlace(pet, items) ==
    <<IF pet = Null THEN pet ELSE [pet EXCEPT !.layers = SortByDepth(@)], items>>

\* the arguments as a call leaves them: filter, map and flat return new
\* arrays, and sort runs in place on the array the last filter returned, so
\* no statement writes to an array of the arguments
InputsAfter(pet, items) == <<pet, items>>

(* ---------------- the scenarios of the specification ---------------- *)
\* base {background depth 0, body depth 10}; item A {hat depth 20}, no
\* restrictions; item B no layers, restrictedZones {body}
Background == [id |-> 1, depth |-> 0]

Body == [id |-> 2, depth |-> 10]

Hat == [id |-> 3, depth |-> 20]

ScenarioHiddenBody ==
    [pet |-> [layers |-> MakeLayers(0, <<Background, Body>>), restrictedZones |-> <<>>],
     items |-> <<[layers |-> MakeLayers(1, <<Hat>>), restrictedZones |-> <<>>],
                 [layers |-> <<>>, restrictedZones |-> MakeRestricted(<<Body.id>>)]>>]

\* the same outfit with the layers of the base listed against their depth
ScenarioUnsortedBase ==
    [pet |-> [layers |-> MakeLayers(0, <<Body, Background>>), restrictedZones |-> <<>>],
     items |-> <<[layers |-> MakeLayers(1, <<Hat>>), restrictedZones |-> <<>>]>>]

Scenarios == {ScenarioHiddenBody, ScenarioUnsortedBase}

\* the components that a specification does not explore stay as they are
Idle == [idle |-> TRUE]

InitWeb ==
    /\ proxy = Idle
    /\ auth = Idle
    /\ sync = Idle
    /\ preload = Idle
    /\ canvas = Idle
    /\ fetcher = Idle

(* ---------------- the page pool (generic-pool, as configured) ---------------- *)
Pools == 0..(IF MaxResets > MaxCrashes THEN MaxResets ELSE MaxCrashes)

Requests == 1..(CHOOSE n \in {LoadRequests, ResetRequests, CrashRequests, OverlapRequests} :
                    \A m \in {LoadRequests, ResetRequests, CrashRequests, OverlapRequests} : m <= n)

\* the runs explored: more requests than a pool has pages on one pool; fewer
\* requests across several timer resets and crashes; and a crash while the
\* pages of the pool still appear one at a time. 'together' is the number of
\* browser.newPage() calls that resolve in one step
LoadBudget ==
    [requests |-> LoadRequests, resets |-> 0, crashes |-> 0, timer |-> FALSE,
     together |-> PoolMin]

ResetBudget ==
    [requests |-> ResetRequests, resets |-> MaxResets, crashes |-> MaxCrashes,
     timer |-> TRUE, together |-> PoolMin]

CrashBudget ==
    [requests |-> CrashRequests, resets |-> MaxCrashes, crashes |-> MaxCrashes,
     timer |-> FALSE, together |-> 1]

Budgets == {LoadBudget, ResetBudget, CrashBudget}

Crashes == Cardinality({p \in Pools : browser[p] = "disconnected"})

NoPool == -1

NoPage == <<>>

NoRequest == 0

\* a page is named by the pool whose factory created it and its creation rank
PageOf(p, k) == <<p, k>>

SeqToSet(s) == {s[k] : k \in 1..Len(s)}

MinOf(a, b) == IF a < b THEN a ELSE b

MaxOf(a, b) == IF a > b THEN a ELSE b

\* a pool that lends without testOnBorrow
Validate_untested(br) == TRUE

\* validate: (page) => page.context().browser().isConnected()
Validate(br) == br = "connected"

\* _dispatch with testOnBorrow: idle pages are validated in lending order; a
\* valid page is lent to the oldest queued acquire, an invalid one is destroyed
RECURSIVE DispatchLoop(_, _)
DispatchLoop(st, br) ==
    IF st.waiting = <<>> \/ st.available = <<>> THEN st
    ELSE IF Validate(br)
         THEN DispatchLoop([st EXCEPT !.available = Tail(@),
                                      !.waiting = Tail(@),
                                      !.loans = @ \cup {Head(st.available)},
                                      !.granted = @ \cup {<<Head(st.waiting), Head(st.available)>>}],
                           br)
         ELSE DispatchLoop([st EXCEPT !.available = Tail(@),
                                      !.destroyed = @ \cup {Head(st.available)}],
                           br)

\* _dispatch also starts factory creates for queued acquires that no idle or
\* in-flight page can serve, up to max; a create on a browser that is not
\* connected rejects (factoryCreateError) and yields no page
Shortfall(st, br) ==
    IF br \in {"launching", "connected"}
    THEN MaxOf(0, MinOf(PoolMax - (Cardinality(st.loans) + Len(st.available) + st.creating),
                        Len(st.waiting) - (Len(st.available) + st.creating)))
    ELSE 0

Dispatch(st, br) ==
    LET withNew == [st EXCEPT !.creating = @ + Shortfall(st, br)]
    IN  DispatchLoop(withNew, br)

PoolState(p) ==
    [available |-> available[p], loans |-> loans[p], waiting |-> waiting[p],
     destroyed |-> destroyed[p], creating |-> pagesCreating[p], granted |-> {},
     returned |-> {}]

GrantedTo(st, r) == \E g \in st.granted : g[1] = r

GrantOf(st, r) == (CHOOSE g \in st.granted : g[1] = r)[2]

NoDrain == [phase |-> "none", tail |-> NoRequest, loans |-> {}]

\* drain() first waits for the acquire that was last in the queue when it was
\* called; once that has settled it waits for the loans outstanding then
DrainProgress(d, st) ==
    IF d.phase = "requests" /\ d.tail \notin SeqToSet(st.waiting)
    THEN [phase |-> "loans", tail |-> d.tail, loans |-> st.loans]
    ELSE d

\* writes a dispatched pool state back, and resumes the requests whose acquire
\* resolved: they enter the try block holding their page
StorePool(p, st, pcBase, pageBase) ==
    /\ available' = [available EXCEPT ![p] = st.available]
    /\ loans' = [loans EXCEPT ![p] = st.loans]
    /\ waiting' = [waiting EXCEPT ![p] = st.waiting]
    /\ destroyed' = [destroyed EXCEPT ![p] = st.destroyed]
    /\ pagesCreating' = [pagesCreating EXCEPT ![p] = st.creating]
    /\ drain' = [drain EXCEPT ![p] = DrainProgress([@ EXCEPT !.loans = @ \ st.returned], st)]
    /\ pc' = [r \in Requests |-> IF GrantedTo(st, r) THEN "navigating" ELSE pcBase[r]]
    /\ page' = [r \in Requests |-> IF GrantedTo(st, r) THEN GrantOf(st, r) ELSE pageBase[r]]

InitPool ==
    /\ PAGE_POOL = 0
    /\ browser = [p \in Pools |-> IF p = 0 THEN "launching" ELSE "none"]
    /\ pagesCreating = [p \in Pools |-> IF p = 0 THEN PoolMin ELSE 0]
    /\ pagesCreated = [p \in Pools |-> 0]
    /\ available = [p \in Pools |-> <<>>]
    /\ loans = [p \in Pools |-> {}]
    /\ waiting = [p \in Pools |-> <<>>]
    /\ destroyed = [p \in Pools |-> {}]
    /\ draining = [p \in Pools |-> FALSE]
    /\ drain = [p \in Pools |-> NoDrain]
    /\ trigger = [p \in Pools |-> "none"]
    /\ pc = [r \in Requests |-> "idle"]
    /\ currentPagePool = [r \in Requests |-> NoPool]
    /\ page = [r \in Requests |-> NoPage]
    /\ response = Null
    /\ exit = Null
    /\ poolAtAcquire = [r \in Requests |-> NoPool]
    /\ rejected = [r \in Requests |-> {}]
    /\ query = Null

(* ---------------- req.query of /api/assetImage ---------------- *)
Undefined == [undefined |-> TRUE]

NeopetsImagesUrl == [parses |-> TRUE, origin |-> "https://images.neopets.com"]

OtherOriginUrl == [parses |-> TRUE, origin |-> "http://images.neopets.com"]

\* a string that new URL(...) throws on
NotAUrl == [parses |-> FALSE, origin |-> "null"]

Queries ==
    {[libraryUrl |-> NeopetsImagesUrl, size |-> "600"],
     [libraryUrl |-> Undefined, size |-> "600"],
     [libraryUrl |-> OtherOriginUrl, size |-> "300"],
     [libraryUrl |-> NotAUrl, size |-> "150"],
     [libraryUrl |-> NeopetsImagesUrl, size |-> "1000"]}

isNeopetsUrl(u) == u.parses /\ u.origin = "https://images.neopets.com"

\* a handle without the check of size
InvalidQuery_anySize(q) ==
    IF q.libraryUrl = Undefined THEN TRUE ELSE ~isNeopetsUrl(q.libraryUrl)

\* the three early returns of handle
InvalidQuery(q) ==
    IF q.libraryUrl = Undefined THEN TRUE
    ELSE IF ~isNeopetsUrl(q.libraryUrl) THEN TRUE
         ELSE (q.size # "600" /\ q.size # "300" /\ q.size # "150")

(* ---------------- errors and results ---------------- *)
\* a thrown error: its name and its message
Error(name, message) == [kind |-> "error", name |-> name, message |-> message]

\* reject(res, message, status), and the 200 answer of handle
ImageBuffer == [kind |-> "image"]

LongCache == "public, max-age=31536000, immutable"

\* a reject that leaves the headers of the 200 answer on the response
Reject_cached(st) ==
    [status |-> st, contentType |-> "image/png", cacheControl |-> LongCache,
     body |-> [kind |-> "text"]]

Reject(st) ==
    [status |-> st, contentType |-> "text/plain; charset=utf8",
     cacheControl |-> "none", body |-> [kind |-> "text"]]

SendImage ==
    [status |-> 200, contentType |-> "image/png", cacheControl |-> LongCache,
     body |-> ImageBuffer]

\* requests are numbered in the order in which they reach handle
NextToArrive(r) ==
    /\ r <= budget.requests
    /\ pc[r] = "idle"
    /\ (IF r = 1 THEN TRUE ELSE pc[r - 1] # "idle")

(* ---------------- resetPagePool and the browser ---------------- *)
\* resetPagePool, run on the browser states br, drain states dr and pending
\* creates cr left by the event that called it: drain() on the previous pool,
\* then createPagePool and the assignment to PAGE_POOL, all synchronous
ResetPagePool(br, dr, cr, trig) ==
    LET prev == PAGE_POOL
        new == PAGE_POOL + 1
    IN  /\ PAGE_POOL < budget.resets
        /\ draining' = [draining EXCEPT ![prev] = TRUE]
        /\ drain' = [dr EXCEPT ![prev] =
                        IF waiting[prev] = <<>>
                        THEN [phase |-> "loans", tail |-> NoRequest, loans |-> loans[prev]]
                        ELSE [phase |-> "requests",
                              tail |-> waiting[prev][Len(waiting[prev])],
                              loans |-> {}]]
        /\ browser' = [br EXCEPT ![new] = "launching"]
        /\ pagesCreating' = [cr EXCEPT ![new] = PoolMin]
        /\ trigger' = [trigger EXCEPT ![prev] = trig]
        /\ PAGE_POOL' = new

\* a listener without the guard
IsCurrentPool_always(p) == TRUE

\* the guard of the 'disconnected' listener
IsCurrentPool(p) == PAGE_POOL = p

\* browser.on("disconnected", ...) of the pool p
OnDisconnected(p, br, dr, cr) ==
    IF IsCurrentPool(p)
    THEN ResetPagePool(br, dr, cr, "disconnected")
    ELSE /\ browser' = br
         /\ drain' = dr
         /\ pagesCreating' = cr
         /\ UNCHANGED <<PAGE_POOL, draining, trigger>>

\* setInterval(resetPagePool, 60000)
TimerReset ==
    /\ budget.timer
    /\ ResetPagePool(browser, drain, pagesCreating, "timer")
    /\ UNCHANGED <<pagesCreated, available, loans, waiting, destroyed, reqVars, layerVars, webVars>>

\* playwright.chromium.launch resolves
BrowserLaunched(p) ==
    /\ browser[p] = "launching"
    /\ browser' = [browser EXCEPT ![p] = "connected"]
    /\ UNCHANGED <<PAGE_POOL, pagesCreating, pagesCreated, available, loans, waiting,
                   destroyed, draining, drain, trigger, reqVars, layerVars, webVars>>

\* the browser process terminates unexpectedly
BrowserDisconnected(p) ==
    /\ browser[p] = "connected"
    /\ Crashes < budget.crashes
    /\ OnDisconnected(p, [browser EXCEPT ![p] = "disconnected"], drain,
                      [pagesCreating EXCEPT ![p] = 0])
    /\ UNCHANGED <<pagesCreated, available, loans, waiting, destroyed, reqVars, layerVars, webVars>>

RECURSIVE NewPages(_, _, _)
NewPages(p, from, n) ==
    IF n = 0 THEN <<>> ELSE <<PageOf(p, from + 1)>> \o NewPages(p, from + 1, n - 1)

\* factory create: browser.newPage() calls in flight resolve (as many of
\* them in one step as the run explores); the pages become idle, and
\* _dispatch runs
PagesCreated(p) ==
    /\ browser[p] = "connected"
    /\ pagesCreating[p] > 0
    /\ pagesCreated' = [pagesCreated EXCEPT ![p] = @ + MinOf(pagesCreating[p], budget.together)]
    /\ LET n == MinOf(pagesCreating[p], budget.together)
           st == [PoolState(p) EXCEPT
                    !.available = @ \o NewPages(p, pagesCreated[p], n),
                    !.creating = @ - n]
           after == Dispatch(st, browser[p])
       IN  StorePool(p, after, pc, page)
    /\ UNCHANGED <<PAGE_POOL, browser, draining, trigger, budget, currentPagePool,
                   response, exit, poolAtAcquire, rejected, query, layerVars, webVars>>

\* a close that does not wait for drain() to resolve
Drained_atCall(p) == draining[p] /\ drain[p].phase \in {"requests", "loans"}

\* what prevPagePool.drain() waits for before its then-callback runs
Drained(p) == drain[p].phase = "loans" /\ drain[p].loans = {}

\* prevPagePool.drain().then(...): await browserPromise, browser.close()
CloseBrowser(p) ==
    /\ Drained(p)
    /\ browser[p] \in {"connected", "disconnected"}
    /\ LET br == [browser EXCEPT ![p] = IF @ = "connected" THEN "closed" ELSE @]
           dr == [drain EXCEPT ![p].phase = "closed"]
           cr == [pagesCreating EXCEPT ![p] = 0]
       IN  IF browser[p] = "connected"
           THEN OnDisconnected(p, br, dr, cr)
           ELSE /\ browser' = br
                /\ drain' = dr
                /\ pagesCreating' = cr
                /\ UNCHANGED <<PAGE_POOL, draining, trigger>>
    /\ available' = [available EXCEPT ![p] = <<>>]   \* its idle pages close with it
    /\ UNCHANGED <<pagesCreated, loans, waiting, destroyed, reqVars, layerVars, webVars>>

(* ---------------- handle and loadAndScreenshotImage ---------------- *)
\* the try/catch of handle around await loadAndScreenshotImage
Answer(res) ==
    IF res.kind = "image" THEN SendImage
    ELSE IF res.name = "TimeoutError" THEN Reject(503)
         ELSE Reject(500)

\* handle: one of the three parameter checks rejects with 400
HandleReject(r, q) ==
    /\ NextToArrive(r)
    /\ InvalidQuery(q)
    /\ pc' = [pc EXCEPT ![r] = "done"]
    /\ response' = Reject(400)
    /\ exit' = Null
    /\ query' = q
    /\ UNCHANGED <<poolVars, budget, currentPagePool, page, poolAtAcquire, rejected,
                   layerVars, webVars>>

\* a pool reference captured once, when the module loads
SnapshotPool_first == CHOOSE p \in Pools : \A q \in Pools : p <= q

\* const currentPagePool = PAGE_POOL
SnapshotPool == PAGE_POOL

\* handle passes the checks; loadAndScreenshotImage snapshots the pool and
\* calls acquire(), which queues the request and runs _dispatch
HandleAcquire(r, q) ==
    /\ NextToArrive(r)
    /\ ~InvalidQuery(q)
    /\ LET p == SnapshotPool
       IN  IF draining[p]
           THEN \* acquire() rejects: "pool is draining and cannot accept work"
                /\ pc' = [pc EXCEPT ![r] = "done"]
                /\ response' = Answer(Error("Error", "pool is draining"))
                /\ exit' = [result |-> Error("Error", "pool is draining"),
                            held |-> FALSE, releases |-> 0]
                /\ UNCHANGED <<available, loans, waiting, destroyed, pagesCreating,
                               drain, page, currentPagePool, poolAtAcquire>>
           ELSE LET st == [PoolState(p) EXCEPT !.waiting = Append(@, r)]
                    after == Dispatch(st, browser[p])
                IN  /\ StorePool(p, after, [pc EXCEPT ![r] = "acquiring"], page)
                    /\ currentPagePool' = [currentPagePool EXCEPT ![r] = p]
                    /\ poolAtAcquire' = [poolAtAcquire EXCEPT ![r] = PAGE_POOL]
                    /\ UNCHANGED <<response, exit>>
    /\ query' = q
    /\ UNCHANGED <<PAGE_POOL, browser, pagesCreated, draining, trigger,
                   budget, rejected, layerVars, webVars>>

\* a pool created without acquireTimeoutMillis: a queued acquire waits on
AcquireTimesOut_unset == FALSE

\* acquireTimeoutMillis: 15000 is set, so a queued acquire is given up
AcquireTimesOut == TRUE

\* acquireTimeoutMillis elapses for a queued acquire, which rejects with
\* generic-pool's TimeoutError; handle answers it. Every acquire of a pool
\* has the same timeout, so the oldest queued acquire times out first
AcquireTimeout(r) ==
    /\ AcquireTimesOut
    /\ pc[r] = "acquiring"
    /\ LET p == currentPagePool[r]
       IN  /\ waiting[p] # <<>>
           /\ Head(waiting[p]) = r
           /\ waiting' = [waiting EXCEPT ![p] = Tail(@)]
           /\ drain' = [drain EXCEPT ![p] =
                            DrainProgress(@, [PoolState(p) EXCEPT !.waiting = Tail(@)])]
    /\ pc' = [pc EXCEPT ![r] = "done"]
    /\ response' = Answer(Error("TimeoutError", "ResourceRequest timed out"))
    /\ exit' = [result |-> Error("TimeoutError", "ResourceRequest timed out"),
                held |-> FALSE, releases |-> 0]
    /\ currentPagePool' = [currentPagePool EXCEPT ![r] = NoPool]
    /\ poolAtAcquire' = [poolAtAcquire EXCEPT ![r] = NoPool]
    /\ UNCHANGED <<PAGE_POOL, browser, pagesCreating, pagesCreated, available, loans,
                   destroyed, draining, trigger, budget, page, rejected, query,
                   layerVars, webVars>>

\* a finally block that reads PAGE_POOL again
ReleaseTarget_current(r) == PAGE_POOL

\* the pool named in the finally block
ReleaseTarget(r) == currentPagePool[r]

\* a release at the end of the try block instead of in finally
ReleasesOn_successOnly(res) == res.kind = "image"

\* whether the exit path that settles with res runs release: finally, always
ReleasesOn(res) == TRUE

\* loadAndScreenshotImage leaves its try block with res: the finally block
\* calls release(page) on ReleaseTarget, which returns the page to the idle
\* list and runs _dispatch (release of a page the pool has not lent rejects
\* and changes nothing); then handle resumes and answers res
Finish(r, res) ==
    LET q == ReleaseTarget(r)
        pg == page[r]
        lent == ReleasesOn(res) /\ pg[1] = q /\ pg \in loans[q]
        pcDone == [pc EXCEPT ![r] = "done"]
        pageDone == [page EXCEPT ![r] = NoPage]
    IN  /\ response' = Answer(res)
        /\ exit' = [result |-> res, held |-> TRUE,
                    releases |-> IF ReleasesOn(res) THEN 1 ELSE 0]
        /\ IF lent
           THEN LET st == [PoolState(q) EXCEPT !.loans = @ \ {pg},
                                               !.available = Append(@, pg),
                                               !.returned = {pg}]
                    after == Dispatch(st, browser[q])
                IN  StorePool(q, after, pcDone, pageDone)
           ELSE /\ pc' = pcDone
                /\ page' = pageDone
                /\ UNCHANGED <<available, loans, waiting, destroyed, pagesCreating, drain>>
        /\ currentPagePool' = [currentPagePool EXCEPT ![r] = NoPool]
        /\ poolAtAcquire' = [poolAtAcquire EXCEPT ![r] = NoPool]
        /\ rejected' = [rejected EXCEPT ![r] = {}]
        /\ UNCHANGED <<PAGE_POOL, browser, pagesCreated, draining, trigger, budget,
                       query, layerVars, webVars>>

\* await page.goto(...) resolves
NavigationLoaded(r) ==
    /\ pc[r] = "navigating"
    /\ browser[page[r][1]] = "connected"
    /\ pc' = [pc EXCEPT ![r] = "racing"]
    /\ UNCHANGED <<poolVars, budget, currentPagePool, page, response, exit,
                   poolAtAcquire, rejected, query, layerVars, webVars>>

\* await page.goto(...) rejects: a navigation error, or playwright's
\* TimeoutError when the navigation timeout elapses
NavigationFailed(r, name) ==
    /\ pc[r] = "navigating"
    /\ Finish(r, Error(name, "goto"))

\* the two promises handed to Promise.any
Waits == {"imageBuffer", "errorMessage"}

\* a Promise.race in the place of Promise.any: the first rejection settles it
AnyRejects_race(rej) == rej # {}

\* Promise.any rejects only once every promise it was given has rejected
AnyRejects(rej) == rej = Waits

\* imageBufferPromise fulfils first: Promise.any settles with the screenshot
RaceImage(r) ==
    /\ pc[r] = "racing"
    /\ "imageBuffer" \notin rejected[r]
    /\ browser[page[r][1]] = "connected"
    /\ Finish(r, ImageBuffer)

\* Promise.any settles with the text of #asset-image-error-message: thrown as
\* new Error(text), or as the assertion error when the text is empty
RaceErrorMessage(r, text) ==
    /\ pc[r] = "racing"
    /\ "errorMessage" \notin rejected[r]
    /\ browser[page[r][1]] = "connected"
    /\ Finish(r, IF text = "" THEN Error("Error", "Assertion error")
                 ELSE Error("Error", text))

\* both waits rejected: Promise.any rejects, rethrown as a single new Error
\* that joins the two messages
RaceBothFailed(r) == Finish(r, Error("Error", "both waits failed"))

\* one of the two promises rejects (its 10 s waitForSelector timeout, a closed
\* page, a failed screenshot): Promise.any stays pending unless the other
\* promise has rejected as well
WaitFailed(r, w) ==
    /\ pc[r] = "racing"
    /\ w \notin rejected[r]
    /\ IF AnyRejects(rejected[r] \cup {w})
       THEN RaceBothFailed(r)
       ELSE /\ rejected' = [rejected EXCEPT ![r] = @ \cup {w}]
            /\ UNCHANGED <<poolVars, budget, pc, currentPagePool, page, response,
                           exit, poolAtAcquire, query, layerVars, webVars>>

ErrorNames == {"Error", "TimeoutError"}

\* texts of #asset-image-error-message
ErrorTexts == {"", "could not load"}

Init ==
    /\ InitPool
    /\ InitWeb
    /\ budget \in Budgets
    /\ petAppearance = Null
    /\ itemAppearances = <<>>
    /\ visibleLayers = Return(<<>>)
    /\ composed = FALSE
    /\ firstLayers = Null
    /\ recomposed = FALSE

Next ==
    \/ TimerReset
    \/ \E p \in Pools : BrowserLaunched(p)
    \/ \E p \in Pools : BrowserDisconnected(p)
    \/ \E p \in Pools : PagesCreated(p)
    \/ \E p \in Pools : CloseBrowser(p)
    \/ \E r \in Requests, q \in Queries : HandleReject(r, q)
    \/ \E r \in Requests, q \in Queries : HandleAcquire(r, q)
    \/ \E r \in Requests : AcquireTimeout(r)
    \/ \E r \in Requests : NavigationLoaded(r)
    \/ \E r \in Requests, name \in ErrorNames : NavigationFailed(r, name)
    \/ \E r \in Requests : RaceImage(r)
    \/ \E r \in Requests, text \in ErrorTexts : RaceErrorMessage(r, text)
    \/ \E r \in Requests, w \in Waits : WaitFailed(r, w)

Spec == Init /\ [][Next]_vars

(* ---------------- SpecOverlap ---------------- *)
\* more requests than a pool has pages, and the reset of the timer
OverlapBudget ==
    [requests |-> OverlapRequests, resets |-> 1, crashes |-> 0, timer |-> TRUE,
     together |-> PoolMin]

InitOverlap ==
    /\ InitPool
    /\ InitWeb
    /\ budget = OverlapBudget
    /\ petAppearance = Null
    /\ itemAppearances = <<>>
    /\ visibleLayers = Return(<<>>)
    /\ composed = FALSE
    /\ firstLayers = Null
    /\ recomposed = FALSE

\* the runs in which nothing fails: every query is valid, every page loads
\* and renders, no browser crashes; only the acquire timeout may fire
NextOverlap ==
    \/ TimerReset
    \/ \E p \in Pools : BrowserLaunched(p)
    \/ \E p \in Pools : PagesCreated(p)
    \/ \E p \in Pools : CloseBrowser(p)
    \/ \E r \in Requests, q \in Queries : HandleAcquire(r, q)
    \/ \E r \in Requests : AcquireTimeout(r)
    \/ \E r \in Requests : NavigationLoaded(r)
    \/ \E r \in Requests : RaceImage(r)

SpecOverlap == InitOverlap /\ [][NextOverlap]_vars

(* ---------------- SpecLive ---------------- *)
LiveRequests == 2    \* requests of a run checked for termination
LiveResets == 1      \* resetPagePool calls of such a run

LiveBudget ==
    [requests |-> LiveRequests, resets |-> LiveResets, crashes |-> 1,
     timer |-> TRUE, together |-> PoolMin]

InitLive ==
    /\ InitPool
    /\ InitWeb
    /\ budget = LiveBudget
    /\ petAppearance = Null
    /\ itemAppearances = <<>>
    /\ visibleLayers = Return(<<>>)
    /\ composed = FALSE
    /\ firstLayers = Null
    /\ recomposed = FALSE

\* the step a request in flight is waiting for: the 15 s timeout of its queued
\* acquire, the end of page.goto (the page loads, or the navigation fails or
\* times out), or the end of one of the two waits (it resolves, or it rejects
\* after its 10 s timeout)
TimedStep(r) ==
    \/ AcquireTimeout(r)
    \/ NavigationLoaded(r)
    \/ \E name \in ErrorNames : NavigationFailed(r, name)
    \/ RaceImage(r)
    \/ \E text \in ErrorTexts : RaceErrorMessage(r, text)
    \/ \E w \in Waits : WaitFailed(r, w)

\* the timers of the code fire: while a request is in flight, one of these
\* steps is eventually taken. Nothing is assumed about the browser: it may
\* never launch and never make a page
Fairness == WF_vars(\E r \in Requests : TimedStep(r))

SpecLive == InitLive /\ [][Next]_vars /\ Fairness

(* ---------------- /api/assetProxy ---------------- *)
\* values of req.query.url: absent, the empty string, a list (the parameter
\* given twice), or a string, kept as the parts the patterns look at
UrlString(scheme, host, shape) ==
    [kind |-> "string", scheme |-> scheme, host |-> host, shape |-> shape]

RepeatedUrl == [kind |-> "array"]

EmptyUrl == [kind |-> "empty"]

\* the three path shapes of VALID_URL_PATTERNS: /items/<name>.gif,
\* /cp/(bio|items)/data/.../<name>.(svg|png), /cp/(bio|items)/swf/.../<hash>.swf
VALID_URL_PATTERNS == <<"itemGif", "cpData", "cpSwf">>

ProxyUrls ==
    {Undefined, EmptyUrl, RepeatedUrl,
     UrlString("http", "images.neopets.com", "itemGif"),
     UrlString("http", "images.neopets.com", "cpData"),
     UrlString("http", "images.neopets.com", "cpSwf"),
     UrlString("https", "images.neopets.com", "itemGif"),
     UrlString("http", "example.com", "cpSwf"),
     UrlString("http", "images.neopets.com", "other")}

\* urlToProxy.match(p): every pattern is anchored at ^http://images.neopets.com/
Match(u, p) ==
    /\ u.scheme = "http"
    /\ u.host = "images.neopets.com"
    /\ u.shape = p

\* !urlToProxy
Falsy(u) == u = Undefined \/ u = EmptyUrl

UpstreamStatuses == {200, 404, 500}

ProxyStart ==
    [pc |-> "idle", url |-> Undefined, fetched |-> FALSE, upstream |-> Null,
     status |-> 0, sent |-> 0, length |-> 0, ended |-> "no"]

\* res.status(400).send(message)
Send400(st) ==
    [st EXCEPT !.pc = "done", !.status = 400, !.length = 1, !.sent = 1,
               !.ended = "complete"]

\* the handler up to its await: the two checks, then fetch(urlToProxy).
\* A list has no match method: the call throws and the handler's promise
\* rejects before anything is written to res
ProxyHandler(r, u) ==
    /\ proxy # Idle
    /\ proxy[r].pc = "idle"
    /\ LET st == [proxy[r] EXCEPT !.url = u]
       IN  proxy' = [proxy EXCEPT ![r] =
              IF Falsy(u) THEN Send400(st)
              ELSE IF u = RepeatedUrl THEN [st EXCEPT !.pc = "threw"]
              ELSE IF ~\E k \in 1..Len(VALID_URL_PATTERNS) : Match(u, VALID_URL_PATTERNS[k])
                   THEN Send400(st)
                   ELSE [st EXCEPT !.pc = "fetching", !.fetched = TRUE]]
    /\ UNCHANGED <<layerVars, poolVars, reqVars, auth, sync, preload, canvas, fetcher>>

\* await fetch resolves: res.status(proxyRes.status), the five setHeader
\* calls, and streamPipeline(proxyRes.body, res), which is not awaited
FetchResolved(r, status, length) ==
    /\ proxy # Idle
    /\ proxy[r].pc = "fetching"
    /\ proxy' = [proxy EXCEPT ![r] =
          [@ EXCEPT !.pc = "streaming",
                    !.upstream = [status |-> status, length |-> length],
                    !.status = status, !.length = length]]
    /\ UNCHANGED <<layerVars, poolVars, reqVars, auth, sync, preload, canvas, fetcher>>

\* await fetch rejects (DNS, connection refused, ...): nothing catches it, the
\* handler's promise rejects and no statement of the handler answers
FetchRejected(r) ==
    /\ proxy # Idle
    /\ proxy[r].pc = "fetching"
    /\ proxy' = [proxy EXCEPT ![r] = [@ EXCEPT !.pc = "threw"]]
    /\ UNCHANGED <<layerVars, poolVars, reqVars, auth, sync, preload, canvas, fetcher>>

\* the pipeline writes a chunk of the upstream body to res; the first write
\* sends the status line and the headers
StreamChunk(r) ==
    /\ proxy # Idle
    /\ proxy[r].pc = "streaming"
    /\ proxy[r].sent < proxy[r].length
    /\ proxy' = [proxy EXCEPT ![r] = [@ EXCEPT !.sent = @ + 1]]
    /\ UNCHANGED <<layerVars, poolVars, reqVars, auth, sync, preload, canvas, fetcher>>

\* the upstream body ends: the pipeline ends res
StreamEnd(r) ==
    /\ proxy # Idle
    /\ proxy[r].pc = "streaming"
    /\ proxy[r].sent = proxy[r].length
    /\ proxy' = [proxy EXCEPT ![r] = [@ EXCEPT !.pc = "done", !.ended = "complete"]]
    /\ UNCHANGED <<layerVars, poolVars, reqVars, auth, sync, preload, canvas, fetcher>>

\* the upstream body fails before its end: stream.pipeline destroys res, so
\* the response stops where it is
StreamError(r) ==
    /\ proxy # Idle
    /\ proxy[r].pc = "streaming"
    /\ proxy[r].sent < proxy[r].length
    /\ proxy' = [proxy EXCEPT ![r] = [@ EXCEPT !.pc = "done", !.ended = "destroyed"]]
    /\ UNCHANGED <<layerVars, poolVars, reqVars, auth, sync, preload, canvas, fetcher>>

ProxyIds == 1..ProxyRequests

ZeroBudget ==
    [requests |-> 0, resets |-> 0, crashes |-> 0, timer |-> FALSE, together |-> PoolMin]

\* everything but the component a specification explores
InitRest ==
    /\ InitPool
    /\ budget = ZeroBudget
    /\ petAppearance = Null
    /\ itemAppearances = <<>>
    /\ visibleLayers = Return(<<>>)
    /\ composed = FALSE
    /\ firstLayers = Null
    /\ recomposed = FALSE

InitProxy ==
    /\ InitRest
    /\ proxy = [r \in ProxyIds |-> ProxyStart]
    /\ auth = Idle
    /\ sync = Idle
    /\ preload = Idle
    /\ canvas = Idle
    /\ fetcher = Idle

NextProxy ==
    \/ \E r \in ProxyIds, u \in ProxyUrls : ProxyHandler(r, u)
    \/ \E r \in ProxyIds, status \in UpstreamStatuses, length \in 0..MaxChunks :
          FetchResolved(r, status, length)
    \/ \E r \in ProxyIds : FetchRejected(r)
    \/ \E r \in ProxyIds : StreamChunk(r)
    \/ \E r \in ProxyIds : StreamEnd(r)
    \/ \E r \in ProxyIds : StreamError(r)

SpecProxy == InitProxy /\ [][NextProxy]_vars

(* ---------------- auth tokens (db.js) ---------------- *)
\* time is counted in days; a JavaScript value is a record with its type
Num(n) == [type |-> "number", val |-> n]

Str(day) == [type |-> "string", val |-> day]

NaN == [type |-> "NaN", val |-> 0]

\* new Date().toISOString(): the text of the day
toISOString(day) == Str(day)

\* ToNumber of the relational comparison: the text of an ISO date is not a
\* numeric literal
ToNumber(v) == IF v.type = "string" THEN NaN ELSE v

\* x < y of JavaScript, with y a Date (its valueOf is a number)
LessThan(x, y) ==
    LET px == ToNumber(x)
        py == ToNumber(y)
    IN  IF px = NaN \/ py = NaN THEN FALSE ELSE px.val < py.val

DaysOfWeek == 7

\* HMAC-SHA256 of JSON.stringify(unsignedAuthToken) under the secret
computeSignatureForAuthToken(unsigned) == <<"hmac", unsigned.userId, unsigned.createdAt>>

NoSignature == <<"hmac", Num(0), Str(0)>>

Unsigned(token) == [userId |-> token.userId, createdAt |-> token.createdAt]

createAuthToken(impressId, today) ==
    LET unsignedAuthToken == [userId |-> impressId, createdAt |-> toISOString(today)]
    IN  [userId |-> impressId,
         createdAt |-> unsignedAuthToken.createdAt,
         signature |-> computeSignatureForAuthToken(unsignedAuthToken)]

getUserIdFromToken(authToken, today) ==
    LET actualSignature == computeSignatureForAuthToken(Unsigned(authToken))
        oneWeekAgo == Num(today - DaysOfWeek)
    IN  IF authToken.signature # actualSignature THEN Null
        ELSE IF LessThan(authToken.createdAt, oneWeekAgo) THEN Null
        ELSE authToken.userId

Users == {Num(u) : u \in 1..MaxUsers}

\* the tokens a client can present: any fields, with a signature the app has
\* issued or one it has not
Signatures ==
    {computeSignatureForAuthToken([userId |-> u, createdAt |-> Str(d)]) :
        u \in Users, d \in 0..MaxDays} \cup {NoSignature}

Tokens == [userId : Users, createdAt : {Str(d) : d \in 0..MaxDays}, signature : Signatures]

PresentableTokens ==
    {t \in Tokens :
        /\ t.createdAt.val <= auth.now
        /\ t.signature \in {i.signature : i \in auth.issued} \cup {NoSignature}}

TickDay ==
    /\ auth # Idle
    /\ auth.now < MaxDays
    /\ auth' = [auth EXCEPT !.now = @ + 1]
    /\ UNCHANGED <<layerVars, poolVars, reqVars, proxy, sync, preload, canvas, fetcher>>

CreateAuthToken(impressId) ==
    /\ auth # Idle
    /\ Cardinality(auth.issued) < MaxTokens
    /\ auth' = [auth EXCEPT !.issued = @ \cup {createAuthToken(impressId, auth.now)}]
    /\ UNCHANGED <<layerVars, poolVars, reqVars, proxy, sync, preload, canvas, fetcher>>

GetUserIdFromToken(authToken) ==
    /\ auth # Idle
    /\ authToken \in PresentableTokens
    /\ auth' = [auth EXCEPT !.token = authToken,
                            !.result = getUserIdFromToken(authToken, auth.now)]
    /\ UNCHANGED <<layerVars, poolVars, reqVars, proxy, sync, preload, canvas, fetcher>>

InitAuth ==
    /\ InitRest
    /\ auth = [now |-> 0, issued |-> {}, token |-> Null, result |-> Null]
    /\ proxy = Idle
    /\ sync = Idle
    /\ preload = Idle
    /\ canvas = Idle
    /\ fetcher = Idle

NextAuth ==
    \/ TickDay
    \/ \E u \in Users : CreateAuthToken(u)
    \/ \E t \in Tokens : GetUserIdFromToken(t)

SpecAuth == InitAuth /\ [][NextAuth]_vars

(* ---------------- syncToDb (Item.js) ---------------- *)
Keys == 1..MaxKeys

Data == 1..MaxData

\* a stored row: the incoming data and the two timestamps
Row(data, now) == [data |-> data, createdAt |-> now, updatedAt |-> now]

\* the incoming rows of a call, as [key, row] pairs with distinct keys
IncomingRows ==
    {rows \in UNION {[1..n -> Keys \X Data] : n \in 0..MaxRows} :
        \A i, j \in 1..Len(rows) : rows[i][1] = rows[j][1] => i = j}

\* loader.loadMany(loaderKeys): the row of each key, or an Error
loadMany(table, loaderKeys) ==
    [i \in 1..Len(loaderKeys) |->
        IF table[loaderKeys[i]] = Null THEN Error("Error", "not found") ELSE table[loaderKeys[i]]]

IsError(v) == "name" \in DOMAIN v

\* the indexes of the incoming rows the loader has no row for
rowsToInsert(currentRows) == {i \in 1..Len(currentRows) : IsError(currentRows[i])}

\* the table after `INSERT INTO ... VALUES ...` of these incoming rows
Inserted(table, incomingRows, indexes, now) ==
    [k \in Keys |->
        IF \E i \in indexes : incomingRows[i][1] = k
        THEN Row((CHOOSE r \in {incomingRows[i] : i \in indexes} : r[1] = k)[2], now)
        ELSE table[k]]

SyncToDb(incomingRows) ==
    /\ sync # Idle
    /\ sync.calls < MaxSyncs
    /\ LET loaderKeys == [i \in 1..Len(incomingRows) |-> incomingRows[i][1]]
           currentRows == loadMany(sync.table, loaderKeys)
           toInsert == rowsToInsert(currentRows)
       IN  sync' = [table |-> Inserted(sync.table, incomingRows, toInsert, sync.calls + 1),
                    before |-> sync.table,
                    incoming |-> incomingRows,
                    loaderCalls |-> 1,
                    inserts |-> IF toInsert # {} THEN 1 ELSE 0,
                    updates |-> 0,
                    calls |-> sync.calls + 1]
    /\ UNCHANGED <<layerVars, poolVars, reqVars, proxy, auth, preload, canvas, fetcher>>

InitSync ==
    /\ InitRest
    /\ \E table \in [Keys -> {Null} \cup {Row(d, 0) : d \in Data}] :
          sync = [table |-> table, before |-> table, incoming |-> <<>>,
                  loaderCalls |-> 0, inserts |-> 0, updates |-> 0, calls |-> 0]
    /\ proxy = Idle
    /\ auth = Idle
    /\ preload = Idle
    /\ canvas = Idle
    /\ fetcher = Idle

NextSync == \E rows \in IncomingRows : SyncToDb(rows)

SpecSync == InitSync /\ [][NextSync]_vars

(* ---------------- usePreloadLayers ---------------- *)
\* a layers array: arrays are compared by identity (loadedLayers !== layers),
\* so each array the parent passes has its own id; the [] that useState
\* starts with has id 0
LayersList(id, len) == [id |-> id, len |-> len]

InitialLoadedLayers == LayersList(0, 0)

\* the dependencies of the effect, as computed by a render
PreloadDeps(st) ==
    <<st.layers, st.loadedLayers.len, st.loadedLayers # st.layers>>

\* a render after a state or prop change: React schedules the effect (its
\* cleanup, then its body) when a dependency differs from the last render
Rerender(old, new) ==
    [new EXCEPT !.effectsPending = old.effectsPending \/ PreloadDeps(old) # PreloadDeps(new)]

\* an effect without the `if (canceled) return` checks
IsCanceled_ignored(load) == FALSE

\* if (canceled) return
IsCanceled(load) == load.canceled

\* the continuation of loadImages once Promise.all has resolved
AfterAllLoaded(st, i) ==
    IF IsCanceled(st.loads[i])
    THEN [st EXCEPT !.loads[i].state = "dropped"]
    ELSE Rerender(st, [st EXCEPT !.loads[i].state = "set",
                                 !.loadedLayers = st.loads[i].layers])

\* the parent renders the component with a new layers array
ChangeLayers(len) ==
    /\ preload # Idle
    /\ ~preload.effectsPending     \* pending effects are flushed before a render
    /\ preload.inputs < MaxInputs
    /\ preload' = [preload EXCEPT !.layers = LayersList(preload.inputs + 1, len),
                                  !.inputs = @ + 1,
                                  !.effectsPending = TRUE]
    /\ UNCHANGED <<layerVars, poolVars, reqVars, proxy, auth, sync, canvas, fetcher>>

\* React runs the scheduled effect: the cleanup of the previous run sets its
\* canceled flag; then the body, with the values of the last render
FlushPreloadEffect ==
    /\ preload # Idle
    /\ preload.effectsPending
    /\ LET cleaned == [preload EXCEPT
                          !.effectsPending = FALSE,
                          !.loads = [i \in 1..Len(@) |->
                                        IF i = preload.active
                                        THEN [@[i] EXCEPT !.canceled = TRUE] ELSE @[i]],
                          !.active = 0]
           loading == cleaned.loadedLayers # cleaned.layers
       IN  preload' =
              IF cleaned.loadedLayers.len > 0 /\ cleaned.layers.len = 0 THEN cleaned
              ELSE IF ~loading THEN cleaned
              ELSE LET started == [cleaned EXCEPT
                                      !.error = Null,
                                      !.loads = Append(@, [layers |-> cleaned.layers,
                                                           canceled |-> FALSE,
                                                           loaded |-> 0,
                                                           state |-> "loading"]),
                                      !.active = Len(cleaned.loads) + 1]
                   IN  IF cleaned.layers.len = 0
                       THEN AfterAllLoaded(started, Len(started.loads))
                       ELSE started
    /\ UNCHANGED <<layerVars, poolVars, reqVars, proxy, auth, sync, canvas, fetcher>>

\* an image of the load i finishes loading; with the last one Promise.all
\* resolves and loadImages goes on
ImageLoaded(i) ==
    /\ preload # Idle
    /\ i \in 1..Len(preload.loads)
    /\ preload.loads[i].state = "loading"
    /\ LET st == [preload EXCEPT !.loads[i].loaded = @ + 1]
       IN  preload' = IF st.loads[i].loaded = st.loads[i].layers.len
                      THEN AfterAllLoaded(st, i)
                      ELSE st
    /\ UNCHANGED <<layerVars, poolVars, reqVars, proxy, auth, sync, canvas, fetcher>>

\* an image of the load i fails: Promise.all rejects and the catch block runs
ImageFailed(i) ==
    /\ preload # Idle
    /\ i \in 1..Len(preload.loads)
    /\ preload.loads[i].state = "loading"
    /\ preload' = IF IsCanceled(preload.loads[i])
                  THEN [preload EXCEPT !.loads[i].state = "dropped"]
                  ELSE Rerender(preload, [preload EXCEPT !.loads[i].state = "failed",
                                                         !.error = "error"])
    /\ UNCHANGED <<layerVars, poolVars, reqVars, proxy, auth, sync, canvas, fetcher>>

InitPreload ==
    /\ InitRest
    /\ \E len \in 0..MaxImages :
          preload = [layers |-> LayersList(1, len),
                     loadedLayers |-> InitialLoadedLayers,
                     error |-> Null,
                     effectsPending |-> TRUE,
                     loads |-> <<>>,
                     active |-> 0,
                     inputs |-> 1]
    /\ proxy = Idle
    /\ auth = Idle
    /\ sync = Idle
    /\ canvas = Idle
    /\ fetcher = Idle

NextPreload ==
    \/ \E len \in 0..MaxImages : ChangeLayers(len)
    \/ FlushPreloadEffect
    \/ \E i \in 1..MaxInputs : ImageLoaded(i)
    \/ \E i \in 1..MaxInputs : ImageFailed(i)

SpecPreload == InitPreload /\ [][NextPreload]_vars

(* ---------------- OutfitCanvasImage and EaselBitmap ---------------- *)
\* the two components; their effects differ in the cleanup only
Components == {"OutfitCanvasImage", "EaselBitmap"}

EffectIds == 1..MaxEffects

\* removeResizeListener(setBitmapSize); removeChild(bitmap)
RemoveBitmap(st, e) ==
    [st EXCEPT !.children = @ \ {e}, !.listeners = @ \ {e}]

\* a component mounts, or a dependency changed and the effect runs again:
\* addBitmap() starts to load the image
RunCanvasEffect(component) ==
    /\ canvas # Idle
    /\ Len(canvas.effects) < MaxEffects
    /\ canvas' = [canvas EXCEPT !.effects = Append(@, [component |-> component,
                                                      image |-> "loading",
                                                      bitmap |-> FALSE,
                                                      cleaned |-> FALSE,
                                                      tween |-> "idle"])]
    /\ UNCHANGED <<layerVars, poolVars, reqVars, proxy, auth, sync, preload, fetcher>>

\* loadImage(src) resolves and addBitmap goes on: the bitmap is created,
\* added to the stage and its resize listener registered
CanvasImageLoaded(e) ==
    /\ canvas # Idle
    /\ e \in 1..Len(canvas.effects)
    /\ canvas.effects[e].image = "loading"
    /\ canvas' = [canvas EXCEPT !.effects[e].image = "loaded",
                                !.effects[e].bitmap = TRUE,
                                !.children = @ \cup {e},
                                !.listeners = @ \cup {e}]
    /\ UNCHANGED <<layerVars, poolVars, reqVars, proxy, auth, sync, preload, fetcher>>

\* loadImage(src) rejects: addBitmap ends there
CanvasImageFailed(e) ==
    /\ canvas # Idle
    /\ e \in 1..Len(canvas.effects)
    /\ canvas.effects[e].image = "loading"
    /\ canvas' = [canvas EXCEPT !.effects[e].image = "failed"]
    /\ UNCHANGED <<layerVars, poolVars, reqVars, proxy, auth, sync, preload, fetcher>>

\* the cleanup of the effect, at unmount or before the next run
CanvasCleanup(e) ==
    /\ canvas # Idle
    /\ e \in 1..Len(canvas.effects)
    /\ ~canvas.effects[e].cleaned
    /\ LET st == [canvas EXCEPT !.effects[e].cleaned = TRUE]
       IN  canvas' =
              IF ~canvas.effects[e].bitmap THEN st
              ELSE IF canvas.effects[e].component = "EaselBitmap" THEN RemoveBitmap(st, e)
              ELSE [st EXCEPT !.effects[e].tween = "fadeOut"]
    /\ UNCHANGED <<layerVars, poolVars, reqVars, proxy, auth, sync, preload, fetcher>>

\* the reversed tween completes: tween.on("complete", removeBitmap, null, true)
FadeOutComplete(e) ==
    /\ canvas # Idle
    /\ e \in 1..Len(canvas.effects)
    /\ canvas.effects[e].tween = "fadeOut"
    /\ canvas' = RemoveBitmap([canvas EXCEPT !.effects[e].tween = "complete"], e)
    /\ UNCHANGED <<layerVars, poolVars, reqVars, proxy, auth, sync, preload, fetcher>>

InitCanvas ==
    /\ InitRest
    /\ canvas = [children |-> {}, listeners |-> {}, effects |-> <<>>]
    /\ proxy = Idle
    /\ auth = Idle
    /\ sync = Idle
    /\ preload = Idle
    /\ fetcher = Idle

NextCanvas ==
    \/ \E c \in Components : RunCanvasEffect(c)
    \/ \E e \in EffectIds : CanvasImageLoaded(e)
    \/ \E e \in EffectIds : CanvasImageFailed(e)
    \/ \E e \in EffectIds : CanvasCleanup(e)
    \/ \E e \in EffectIds : FadeOutComplete(e)

SpecCanvas == InitCanvas /\ [][NextCanvas]_vars

(* ---------------- useFetch ---------------- *)
FetchIds == 1..MaxFetches

NoResponse(skip) == [loading |-> ~skip, error |-> Null, data |-> Null]

\* setResponse: the state of a component that is unmounted is not written
setResponse(st, value) == IF st.mounted THEN [st EXCEPT !.response = value] ELSE st

\* the data and the error of the fetch i
DataOf(i) == [arrayBuffer |-> i]

ErrorOf(i) == [fetchError |-> i]

\* the cleanup of the effect that is in force: canceled = true
CancelFetch(st) ==
    [st EXCEPT !.fetches = [i \in 1..Len(@) |->
                               IF i = st.active THEN [@[i] EXCEPT !.canceled = TRUE] ELSE @[i]],
               !.active = 0]

\* url, options or skip changed: the cleanup, then the effect again
Refetch(skip) ==
    /\ fetcher # Idle
    /\ fetcher.mounted
    /\ Len(fetcher.fetches) < MaxFetches
    /\ LET st == CancelFetch(fetcher)
       IN  fetcher' =
              IF skip THEN st
              ELSE [st EXCEPT !.fetches = Append(@, [canceled |-> FALSE, phase |-> "pending"]),
                              !.active = Len(st.fetches) + 1]
    /\ UNCHANGED <<layerVars, poolVars, reqVars, proxy, auth, sync, preload, canvas>>

Unmount ==
    /\ fetcher # Idle
    /\ fetcher.mounted
    /\ fetcher' = [CancelFetch(fetcher) EXCEPT !.mounted = FALSE]
    /\ UNCHANGED <<layerVars, poolVars, reqVars, proxy, auth, sync, preload, canvas>>

\* fetch resolves: .then(async (res) => { if (canceled) return; await res.arrayBuffer() ... })
ResponseArrived(i) ==
    /\ fetcher # Idle
    /\ i \in 1..Len(fetcher.fetches)
    /\ fetcher.fetches[i].phase = "pending"
    /\ fetcher' = [fetcher EXCEPT !.fetches[i].phase =
                                      IF fetcher.fetches[i].canceled THEN "dropped" ELSE "reading"]
    /\ UNCHANGED <<layerVars, poolVars, reqVars, proxy, auth, sync, preload, canvas>>

\* res.arrayBuffer() resolves: setResponse({ loading: false, error: null, data })
BodyRead(i) ==
    /\ fetcher # Idle
    /\ i \in 1..Len(fetcher.fetches)
    /\ fetcher.fetches[i].phase = "reading"
    /\ fetcher' = setResponse([fetcher EXCEPT !.fetches[i].phase = "done"],
                              [loading |-> FALSE, error |-> Null, data |-> DataOf(i)])
    /\ UNCHANGED <<layerVars, poolVars, reqVars, proxy, auth, sync, preload, canvas>>

\* fetch or res.arrayBuffer() rejects: .catch((error) => { if (canceled) return; ... })
FetchFailed(i) ==
    /\ fetcher # Idle
    /\ i \in 1..Len(fetcher.fetches)
    /\ fetcher.fetches[i].phase \in {"pending", "reading"}
    /\ fetcher' = IF fetcher.fetches[i].canceled
                  THEN [fetcher EXCEPT !.fetches[i].phase = "dropped"]
                  ELSE setResponse([fetcher EXCEPT !.fetches[i].phase = "failed"],
                                   [loading |-> FALSE, error |-> ErrorOf(i), data |-> Null])
    /\ UNCHANGED <<layerVars, poolVars, reqVars, proxy, auth, sync, preload, canvas>>

InitFetch ==
    /\ InitRest
    /\ \E skip \in BOOLEAN :
          fetcher = [response |-> NoResponse(skip),
                     mounted |-> TRUE,
                     fetches |-> IF skip THEN <<>>
                                 ELSE <<[canceled |-> FALSE, phase |-> "pending"]>>,
                     active |-> IF skip THEN 0 ELSE 1]
    /\ proxy = Idle
    /\ auth = Idle
    /\ sync = Idle
    /\ preload = Idle
    /\ canvas = Idle

NextFetch ==
    \/ \E skip \in BOOLEAN : Refetch(skip)
    \/ Unmount
    \/ \E i \in FetchIds : ResponseArrived(i)
    \/ \E i \in FetchIds : BodyRead(i)
    \/ \E i \in FetchIds : FetchFailed(i)

SpecFetch == InitFetch /\ [][NextFetch]_vars

(* ---------------- SpecLayers ---------------- *)
InitLayers ==
    /\ InitPool
    /\ InitWeb
    /\ budget = [requests |-> 0, resets |-> 0, crashes |-> 0, timer |-> FALSE,
                 together |-> PoolMin]
    /\ \/ /\ petAppearance \in PetAppearances \cup {Null}
          /\ \E shapes \in SeqsUpTo(ItemShapes, MaxItems) :
                itemAppearances = [i \in 1..Len(shapes) |-> MakeItem(i, shapes[i])]
       \/ \E sc \in Scenarios :
             petAppearance = sc.pet /\ itemAppearances = sc.items
    /\ visibleLayers = Return(<<>>)
    /\ composed = FALSE
    /\ firstLayers = Null
    /\ recomposed = FALSE

\* useOutfitAppearance calls getVisibleLayers on the fetched appearances
Compose ==
    /\ ~composed
    /\ visibleLayers' = getVisibleLayers(petAppearance, itemAppearances)
    /\ petAppearance' = InputsAfter(petAppearance, itemAppearances)[1]
    /\ itemAppearances' = InputsAfter(petAppearance, itemAppearances)[2]
    /\ composed' = TRUE
    /\ UNCHANGED <<firstLayers, recomposed, poolVars, reqVars, webVars>>

\* the component renders again and calls getVisibleLayers on the same objects
ComposeAgain ==
    /\ composed
    /\ ~recomposed
    /\ firstLayers' = visibleLayers
    /\ visibleLayers' = getVisibleLayers(petAppearance, itemAppearances)
    /\ petAppearance' = InputsAfter(petAppearance, itemAppearances)[1]
    /\ itemAppearances' = InputsAfter(petAppearance, itemAppearances)[2]
    /\ recomposed' = TRUE
    /\ UNCHANGED <<composed, poolVars, reqVars, webVars>>

NextLayers == Compose \/ ComposeAgain

SpecLayers == InitLayers /\ [][NextLayers]_vars

(* ======================= properties ======================= *)
Out == visibleLayers.value

Composed == composed /\ ~visibleLayers.threw

\* the layers of the base appearance, then of each item appearance in order
SourceLayers ==
    IF petAppearance = Null THEN <<>>
    ELSE petAppearance.layers \o
         Flat([k \in 1..Len(itemAppearances) |->
                  IF itemAppearances[k] = Null THEN <<>> ELSE itemAppearances[k].layers])

SourceIndex(l) == CHOOSE n \in 1..Len(SourceLayers) : SourceLayers[n] = l

FirstOfItsZone(i) ==
    \A m \in 1..(i - 1) : SourceLayers[m].zone.id # SourceLayers[i].zone.id

ItemRestrictedZoneIds ==
    UNION {{itemAppearances[k].restrictedZones[j].id :
                j \in 1..Len(itemAppearances[k].restrictedZones)} :
           k \in {n \in 1..Len(itemAppearances) : itemAppearances[n] # Null}}

InOutput(l) == \E k \in 1..Len(Out) : Out[k] = l

\* C1: the list getVisibleLayers returns holds at most one layer per zone id
C1_OneLayerPerZone ==
    Composed =>
        \A i, j \in 1..Len(Out) : i # j => Out[i].zone.id # Out[j].zone.id

\* two source layers share a zone, and the output still shows that zone once
C1_Witness ==
    /\ Composed
    /\ Len(Out) >= 2
    /\ \E i, j \in 1..Len(SourceLayers) :
          /\ i < j
          /\ SourceLayers[i].zone.id = SourceLayers[j].zone.id
          /\ InOutput(SourceLayers[i])

\* C2: a layer that survived the zone dedup is missing from the output exactly
\* when its zone is restricted by an item appearance; base layers are hidden
\* too, and restrictedZones of the base appearance hide nothing
C2_HiddenIffRestrictedByItem ==
    (Composed /\ petAppearance # Null) =>
        \A i \in 1..Len(SourceLayers) :
            FirstOfItsZone(i) =>
                (InOutput(SourceLayers[i])
                    <=> SourceLayers[i].zone.id \notin ItemRestrictedZoneIds)

\* an item hides the base layer, while a zone named only by the base
\* appearance's restrictedZones stays visible
C2_Witness ==
    /\ Composed
    /\ petAppearance # Null
    /\ Len(petAppearance.layers) > 0
    /\ petAppearance.layers[1].zone.id \in ItemRestrictedZoneIds
    /\ ~InOutput(petAppearance.layers[1])
    /\ \E k \in 1..Len(Out), j \in 1..Len(petAppearance.restrictedZones) :
          Out[k].zone.id = petAppearance.restrictedZones[j].id

\* C3: the output is ordered by non-decreasing zone depth, and layers of equal
\* depth keep their encounter order (base first, then items in order)
C3_SortedByDepthStable ==
    Composed =>
        \A i, j \in 1..Len(Out) :
            i < j =>
                /\ Out[i].zone.depth <= Out[j].zone.depth
                /\ (Out[i].zone.depth = Out[j].zone.depth
                        => SourceIndex(Out[i]) < SourceIndex(Out[j]))

\* three layers, two of them tied, and the sort had to move one
C3_Witness ==
    /\ Composed
    /\ Len(Out) = 3
    /\ Out[1].zone.depth = Out[2].zone.depth
    /\ \E i, j \in 1..Len(Out) : i < j /\ SourceIndex(Out[i]) > SourceIndex(Out[j])

\* a request is inside the try block of loadAndScreenshotImage, holding a page
Holding(r) == pc[r] \in {"navigating", "racing"}

Holders(pg) == {r \in Requests : Holding(r) /\ page[r] = pg}

\* C4: a page that loadAndScreenshotImage acquired is released exactly once,
\* to the pool that lent it, on every exit path, by the time the image or the
\* error is answered: no page stays on loan without a request in the try
\* block, and the exit that was answered called release once
C4_ReleasedOnEveryExit ==
    /\ \A p \in Pools : \A pg \in loans[p] : Cardinality(Holders(pg)) = 1
    /\ \A r \in Requests : Holding(r) => page[r] \in loans[page[r][1]]
    /\ (exit # Null /\ exit.held) => exit.releases = 1

\* an error exit (navigation timeout) whose page is idle in its pool again
C4_Witness ==
    /\ exit # Null
    /\ exit.held
    /\ exit.result = Error("TimeoutError", "goto")
    /\ \E p \in Pools : Len(available[p]) = PoolMin /\ loans[p] = {}

\* C5: a pool never has more than 4 pages checked out; while an acquire is
\* queued on a connected pool whose pages exist, exactly 4 are checked out;
\* an acquire that timed out is answered with 503
C5_AtMostFourCheckedOut ==
    /\ \A p \in Pools : Cardinality(loans[p]) <= 4
    /\ \A p \in Pools :
          (waiting[p] # <<>> /\ browser[p] = "connected" /\ pagesCreating[p] = 0)
              => Cardinality(loans[p]) = 4
    /\ (exit # Null /\ ~exit.held /\ exit.result.name = "TimeoutError")
              => response.status = 503

\* five requests on one pool: four hold a page, the fifth is queued
C5_Witness ==
    \E p \in Pools :
        /\ Cardinality(loans[p]) = 4
        /\ Len(waiting[p]) = 1
        /\ Cardinality({r \in Requests : Holding(r) /\ page[r][1] = p}) = 4

\* C6: across resetPagePool a request keeps the page it holds until it
\* exits, its exit returns that page to the pool that lent it, and a request
\* that calls acquire is queued on, and served by, the pool that is current
\* at that call
C6_InFlightKeepPoolNewUseNew ==
    [][\A r \in Requests :
          /\ (Holding(r) /\ pc'[r] # "done") => (Holding(r)' /\ page'[r] = page[r])
          /\ (Holding(r) /\ pc'[r] = "done") =>
                \/ page[r] \in SeqToSet(available'[page[r][1]])
                \/ page[r] \in destroyed'[page[r][1]]
                \/ \E x \in Requests : x # r /\ pc'[x] = "navigating" /\ page'[x] = page[r]
          /\ (pc[r] = "idle" /\ pc'[r] \in {"acquiring", "navigating"}) =>
                /\ currentPagePool'[r] = PAGE_POOL
                /\ (pc'[r] = "acquiring" => r \in SeqToSet(waiting'[PAGE_POOL]))
          /\ Holding(r)' => page'[r][1] = currentPagePool'[r]
      ]_vars

\* after a reset, a request still holds a page of the retired pool while
\* another holds a page of the new pool
C6_Witness ==
    /\ PAGE_POOL > 0
    /\ \E r1, r2 \in Requests :
          /\ Holding(r1) /\ page[r1][1] < PAGE_POOL /\ draining[page[r1][1]]
          /\ Holding(r2) /\ page[r2][1] = PAGE_POOL

\* C7 (as claimed): 503 is answered exactly when the acquire timed out, and
\* every failure after a page was acquired is answered with 500
C7_Only503ForAcquireTimeout ==
    (exit # Null /\ response # Null) =>
        /\ (response.status = 503
                <=> (~exit.held /\ exit.result.kind = "error"
                        /\ exit.result.name = "TimeoutError"))
        /\ ((exit.held /\ exit.result.kind = "error") => response.status = 500)

\* C8: the browser of a retired pool is closed only when no request holds one
\* of its pages any more
C8_ClosedOnlyAfterLoansReturned ==
    \A p \in Pools :
        drain[p].phase = "closed" =>
            /\ loans[p] = {}
            /\ waiting[p] = <<>>
            /\ \A r \in Requests : Holding(r) => page[r][1] # p

\* a pool retired by the timer, whose pages were used, has been closed
C8_Witness ==
    \E p \in Pools :
        /\ trigger[p] = "timer"
        /\ drain[p].phase = "closed"
        /\ browser[p] = "closed"
        /\ pagesCreated[p] = PoolMin
        /\ exit # Null /\ exit.held

\* C9 (as claimed): a retired pool grants no acquire after the reset, not
\* even to requests that were queued on it when the reset happened
C9_RetiredPoolGrantsNothing ==
    [][\A r \in Requests :
          (~Holding(r) /\ Holding(r)') => ~draining[page'[r][1]]
      ]_vars

\* C9 (amended): a retired pool gets no new acquire call, every acquire goes
\* to the current pool, and the only grants of a retired pool go to requests
\* that were already queued on it
C9_RetiredPoolServesOnlyItsQueue ==
    [][/\ \A r \in Requests :
            (~Holding(r) /\ Holding(r)' /\ draining[page'[r][1]])
                => r \in SeqToSet(waiting[page'[r][1]])
       /\ \A p \in Pools :
            draining[p] => SeqToSet(waiting'[p]) \subseteq SeqToSet(waiting[p])
       /\ \A r \in Requests :
            (pc[r] = "idle" /\ pc'[r] # "idle") =>
                \/ pc'[r] = "done" /\ response'.status = 400
                \/ /\ pc'[r] \in {"acquiring", "navigating"}
                   /\ currentPagePool'[r] = PAGE_POOL
                   /\ ~draining[PAGE_POOL]
      ]_vars

\* the request that was last in the queue of a pool when it was retired now
\* holds a page of that pool
C9_Witness ==
    \E p \in Pools :
        /\ draining[p]
        /\ drain[p].tail # NoRequest
        /\ Holding(drain[p].tail)
        /\ page[drain[p].tail][1] = p

\* C10: a browser's 'disconnected' event runs resetPagePool exactly when its
\* pool is the current one; the disconnect of a retired instance, also the
\* one its own close causes, resets nothing
C10_DisconnectResetsOnlyCurrent ==
    [][\A p \in Pools :
          (browser[p] = "connected" /\ browser'[p] \in {"disconnected", "closed"})
              => ((PAGE_POOL' # PAGE_POOL) <=> (PAGE_POOL = p))
      ]_vars

\* one pool was retired by a disconnect while current, and an earlier
\* retired pool was closed by its teardown
C10_Witness ==
    \E p, q \in Pools :
        /\ trigger[p] = "disconnected"
        /\ browser[p] = "disconnected"
        /\ trigger[q] = "timer"
        /\ browser[q] = "closed"

BadLibraryUrl(u) ==
    IF u = Undefined THEN TRUE
    ELSE IF ~u.parses THEN TRUE
         ELSE u.origin # "https://images.neopets.com"

BadSize(sz) == sz \notin {"600", "300", "150"}

\* C12: a request whose libraryUrl is missing, is no URL or has another
\* origin than https://images.neopets.com, or whose size is none of "600",
\* "300", "150", is answered with 400 in the step in which it arrives, and that
\* step leaves every pool untouched: nothing is queued, lent or created
C12_BadQueryIs400WithoutAcquire ==
    [][\A r \in Requests :
          (pc[r] = "idle" /\ pc'[r] # "idle"
              /\ (BadLibraryUrl(query'.libraryUrl) \/ BadSize(query'.size))) =>
                /\ pc'[r] = "done"
                /\ response'.status = 400
                /\ page'[r] = NoPage
                /\ currentPagePool'[r] = NoPool
                /\ poolVars' = poolVars
      ]_vars

\* a request with a size outside the list was answered 400 while another
\* request holds a page and the rest of the pool is idle
C12_Witness ==
    /\ query # Null
    /\ query.libraryUrl = NeopetsImagesUrl
    /\ BadSize(query.size)
    /\ response.status = 400
    /\ \E p \in Pools : Cardinality(loans[p]) = 1 /\ Len(available[p]) = PoolMin - 1

EmptyAppearance == [layers |-> <<>>, restrictedZones |-> <<>>]

\* C13 (as claimed): without a base appearance the call returns what it
\* returns for a base appearance that has no layers, on the same items
C13_AbsentBaseAsEmptyBase ==
    (composed /\ petAppearance = Null) =>
        visibleLayers = getVisibleLayers(EmptyAppearance, itemAppearances)

\* C13 (amended): without a base appearance the call returns the empty list,
\* whatever the item appearances are
C13_AbsentBaseYieldsNothing ==
    (composed /\ petAppearance = Null) => visibleLayers = Return(<<>>)

\* no base appearance, an item appearance with a layer that nothing
\* restricts, and an empty result
C13_Witness ==
    /\ composed
    /\ petAppearance = Null
    /\ Len(itemAppearances) = 1
    /\ itemAppearances[1] # Null
    /\ Len(itemAppearances[1].layers) = 1
    /\ itemAppearances[1].restrictedZones = <<>>
    /\ visibleLayers = Return(<<>>)

\* C14: every layer of the output is the first layer of its zone in the
\* encounter order (base layers, then the layers of each item in the order of
\* the items); a later layer of that zone is never shown, whatever its depth
C14_FirstEncounteredWins ==
    Composed =>
        \A i \in 1..Len(SourceLayers) :
            InOutput(SourceLayers[i]) => FirstOfItsZone(i)

\* two items have a layer in the same zone, the later one at a lower depth,
\* and the output shows the layer of the first item
C14_Witness ==
    /\ Composed
    /\ \E i, j \in 1..Len(SourceLayers) :
          /\ i < j
          /\ SourceLayers[i].id >= 10
          /\ SourceLayers[i].zone.id = SourceLayers[j].zone.id
          /\ SourceLayers[j].zone.depth < SourceLayers[i].zone.depth
          /\ InOutput(SourceLayers[i])
          /\ ~InOutput(SourceLayers[j])

\* C15: the restrictedZones of an item appearance without layers hide every
\* layer of those zones; on the outfit base {background 0, body 10}, item A
\* {hat 20}, item B {no layers, restricts body} the output is
\* [background, hat]
C15_LayerlessItemStillHides ==
    Composed =>
        /\ \A k \in 1..Len(itemAppearances) :
              (itemAppearances[k] # Null /\ petAppearance # Null
                  /\ Len(itemAppearances[k].layers) = 0) =>
                    \A j \in 1..Len(itemAppearances[k].restrictedZones) :
                        \A o \in 1..Len(Out) :
                            Out[o].zone.id # itemAppearances[k].restrictedZones[j].id
        /\ (petAppearance = ScenarioHiddenBody.pet
                /\ itemAppearances = ScenarioHiddenBody.items) =>
              Out = <<[id |-> 1, zone |-> Background], [id |-> 11, zone |-> Hat]>>

\* the outfit of the scenario has been composed, and the body is not shown
C15_Witness ==
    /\ Composed
    /\ petAppearance = ScenarioHiddenBody.pet
    /\ itemAppearances = ScenarioHiddenBody.items
    /\ Len(Out) = 2
    /\ \A o \in 1..Len(Out) : Out[o].zone # Body

\* C16 (as claimed): no call throws, also with absent entries among the item
\* appearances, and with nothing to draw the result is the empty list
C16_NeverThrows ==
    composed =>
        /\ ~visibleLayers.threw
        /\ (SourceLayers = <<>> => visibleLayers = Return(<<>>))

C18_NoPageOfDisconnectedBrowserIsLent ==
    /\ [](\A p \in Pools :
             /\ destroyed[p] \cap loans[p] = {}
             /\ destroyed[p] \cap SeqToSet(available[p]) = {}
             /\ \A r \in Requests : Holding(r) => page[r] \notin destroyed[p]
             /\ (waiting[p] # <<>> /\ browser[p] \in {"disconnected", "closed"})
                    => available[p] = <<>>)
    /\ [][/\ \A r \in Requests :
               (~Holding(r) /\ Holding(r)') =>
                   /\ browser[page'[r][1]] = "connected"
                   /\ browser'[page'[r][1]] = "connected"
          /\ \A p \in Pools : destroyed[p] \subseteq destroyed'[p]
         ]_vars

\* after a crash, the page a request gave back was destroyed rather than
\* lent to the acquire that is still queued on that pool
C18_Witness ==
    \E p \in Pools :
        /\ browser[p] = "disconnected"
        /\ destroyed[p] # {}
        /\ waiting[p] # <<>>
        /\ loans[p] = {}

\* C20: the response carries the long-lived Cache-Control value and the
\* Content-Type image/png exactly when it is the 200 response with the PNG;
\* every 400, 500 and 503 response is text/plain without that cache header
C20_CacheHeadersOnlyOnPng ==
    response # Null =>
        /\ response.status \in {200, 400, 500, 503}
        /\ (response.cacheControl = LongCache <=> response.status = 200)
        /\ (response.contentType = "image/png" <=> response.status = 200)
        /\ (response.status = 200 <=> response.body = ImageBuffer)
        /\ response.status # 200 =>
              /\ response.contentType = "text/plain; charset=utf8"
              /\ response.cacheControl = "none"
              /\ response.body = [kind |-> "text"]

\* the text of the page's error marker was answered with 500, as plain text
C20_Witness ==
    /\ response # Null
    /\ response.status = 500
    /\ response.contentType = "text/plain; charset=utf8"
    /\ response.cacheControl = "none"
    /\ exit # Null
    /\ exit.result = Error("Error", "could not load")

InFlight(r) == pc[r] \in {"acquiring", "navigating", "racing"}

\* C19: every request that entered handle is answered, once: again and again
\* no request is in flight, and a request that has reached the end of handle
\* stays there, so each request in flight reaches it; a response is sent only in the step in
\* which exactly one request ends, with status 200, 400, 500 or 503; and a
\* request that has ended holds no page: every page on loan is held by a
\* request that is still in its try block
C19_EveryRequestAnsweredOnce ==
    /\ []<>(\A r \in Requests : ~InFlight(r))
    /\ [](\A r \in Requests : pc[r] = "done" => page[r] = NoPage)
    /\ [](\A p \in Pools : \A pg \in loans[p] : \E r \in Requests : Holding(r) /\ page[r] = pg)
    /\ [][/\ \A r \in Requests : pc[r] = "done" => pc'[r] = "done"
          /\ \A r \in Requests :
                (pc[r] # "done" /\ pc'[r] = "done") =>
                    /\ response' # Null
                    /\ response'.status \in {200, 400, 500, 503}
                    /\ \A x \in Requests \ {r} : (pc'[x] = "done") <=> (pc[x] = "done")
          /\ (response' # response) => \E r \in Requests : pc[r] # "done" /\ pc'[r] = "done"
         ]_vars

\* both requests were answered; the second one waited for a page of a browser
\* that never finished launching and was given up with 503
C19_Witness ==
    /\ \A r \in 1..LiveRequests : pc[r] = "done"
    /\ response.status = 503
    /\ \E p \in Pools : browser[p] = "launching" /\ pagesCreated[p] = 0
    /\ \A p \in Pools : loans[p] = {}

\* what the interface of the proxy calls an allowed url: a string that one of
\* the three patterns matches
AllowListed(u) ==
    IF u \in {Undefined, EmptyUrl, RepeatedUrl} THEN FALSE
    ELSE /\ u.scheme = "http"
         /\ u.host = "images.neopets.com"
         /\ u.shape \in {"itemGif", "cpData", "cpSwf"}

Handled(r) == proxy[r].pc # "idle"

\* C21 (as claimed): a request whose url is missing or matches no pattern is
\* answered with 400 and starts no fetch; a fetch is started only for a url
\* that a pattern matches
C21_UnlistedUrlIs400WithoutFetch ==
    \A r \in ProxyIds :
        /\ (Handled(r) /\ ~AllowListed(proxy[r].url)) =>
              (proxy[r].status = 400 /\ ~proxy[r].fetched)
        /\ proxy[r].fetched => AllowListed(proxy[r].url)

\* C22 (as claimed): a response is a complete body or an error status with
\* its message: the 200 of the image endpoint carries the whole PNG, and a
\* response of the proxy that has stopped with a success status carries the
\* whole upstream body
C22_NoTruncatedBody ==
    /\ (response # Null /\ response.status = 200) => response.body = ImageBuffer
    /\ (proxy # Idle) =>
          \A r \in ProxyIds :
              (proxy[r].pc = "done" /\ proxy[r].status \in 200..299) =>
                  (proxy[r].ended = "complete" /\ proxy[r].sent = proxy[r].length)

\* C23 (as claimed): a non-OK upstream status is answered with that status,
\* and a fetch that failed is answered with an error status too
C23_UpstreamFailurePropagated ==
    \A r \in ProxyIds :
        /\ (proxy[r].upstream # Null /\ proxy[r].upstream.status \notin 200..299) =>
              proxy[r].status = proxy[r].upstream.status
        /\ (proxy[r].fetched /\ proxy[r].upstream = Null
                /\ proxy[r].pc \notin {"fetching"}) =>
              proxy[r].status >= 400

\* the pages checked out in the process, over the current pool and every
\* retired pool
CheckedOut == UNION {loans[p] : p \in Pools}

\* C24 (as claimed): at most 4 pages are checked out at any moment, counted
\* over the current pool and the retired pools that still drain
C24_AtMostFourAcrossPools == Cardinality(CheckedOut) <= 4

\* C28 (as claimed): a race that resolves ends by returning the image buffer
\* or by throwing the text of the page's error marker; the assertion error of
\* the last branch is never thrown, also for an error marker without text
C28_AssertionBranchUnreachable ==
    (exit # Null /\ exit.held /\ exit.result.kind = "error") =>
        exit.result.message # "Assertion error"

\* the loads of usePreloadLayers that settle in the step
SettlingLoads ==
    {i \in 1..Len(preload.loads) :
        preload.loads[i].state = "loading" /\ preload'.loads[i].state # "loading"}

\* C27 (as claimed): loadedLayers is the initial empty list or a list all of
\* whose images have loaded; a canceled load sets neither loadedLayers nor
\* error; and while the input is empty and loadedLayers is not, loadedLayers
\* stays as it is
C27_AllAtOnceAndKeptOnEmptyInput ==
    /\ [](\/ preload.loadedLayers = InitialLoadedLayers
          \/ \E i \in 1..Len(preload.loads) :
                /\ preload.loads[i].layers = preload.loadedLayers
                /\ preload.loads[i].loaded = preload.loadedLayers.len)
    /\ [][/\ \A i \in SettlingLoads :
                preload.loads[i].canceled =>
                    /\ preload'.loadedLayers = preload.loadedLayers
                    /\ preload'.error = preload.error
          /\ (preload.layers.len = 0 /\ preload.loadedLayers.len > 0) =>
                preload'.loadedLayers = preload.loadedLayers
         ]_vars

\* C27 (amended): loadedLayers is the initial empty list or a list all of
\* whose images have loaded; a canceled load sets neither loadedLayers nor
\* error; and while the input is empty and loadedLayers is not, no load is
\* started and loadedLayers is not cleared: it changes only when a load of an
\* earlier input completes before the cleanup of its effect has run, and then
\* to the loaded, non-empty layers of that load
C27_AllAtOnceAndNotClearedOnEmptyInput ==
    /\ [](\/ preload.loadedLayers = InitialLoadedLayers
          \/ \E i \in 1..Len(preload.loads) :
                /\ preload.loads[i].layers = preload.loadedLayers
                /\ preload.loads[i].loaded = preload.loadedLayers.len)
    /\ [][/\ \A i \in SettlingLoads :
                preload.loads[i].canceled =>
                    /\ preload'.loadedLayers = preload.loadedLayers
                    /\ preload'.error = preload.error
          /\ (preload.layers.len = 0 /\ preload.loadedLayers.len > 0) =>
                /\ Len(preload'.loads) = Len(preload.loads)
                /\ \/ preload'.loadedLayers = preload.loadedLayers
                   \/ /\ preload.effectsPending
                      /\ preload'.loadedLayers.len > 0
                      /\ \E i \in SettlingLoads :
                            /\ ~preload.loads[i].canceled
                            /\ preload'.loads[i].loaded = preload.loads[i].layers.len
                            /\ preload'.loadedLayers = preload.loads[i].layers
         ]_vars

\* the input is empty, the effect has run for it, the list loaded before is
\* still shown, and a canceled load has settled without effect
C27_Witness ==
    /\ preload # Idle
    /\ preload.layers.len = 0
    /\ preload.loadedLayers.len > 0
    /\ ~preload.effectsPending
    /\ \E i \in 1..Len(preload.loads) :
          preload.loads[i].canceled /\ preload.loads[i].state = "dropped"

\* the day a token was created, read from its text
CreatedDay(token) == token.createdAt.val

\* C25 (as claimed): a token created more than 7 days before the current time
\* is answered null, valid signature or not; the userId is returned only for
\* a token with a matching signature created within the past week
C25_ExpiredTokenIsNull ==
    (auth # Idle /\ auth.token # Null) =>
        /\ CreatedDay(auth.token) < auth.now - DaysOfWeek => auth.result = Null
        /\ auth.result # Null =>
              /\ auth.result = auth.token.userId
              /\ auth.token.signature = computeSignatureForAuthToken(Unsigned(auth.token))
              /\ CreatedDay(auth.token) >= auth.now - DaysOfWeek

\* C26 (as claimed): after a call every incoming row is in the table with the
\* incoming data (inserted when it was missing, updated when it differed), a
\* row that did not differ is as it was, and the call made one loader call,
\* at most one INSERT and at most one UPDATE
C26_TableInLineWithIncoming ==
    (sync # Idle /\ sync.calls > 0) =>
        /\ \A i \in 1..Len(sync.incoming) :
              LET key == sync.incoming[i][1]
                  data == sync.incoming[i][2]
              IN  /\ sync.table[key] # Null
                  /\ sync.table[key].data = data
                  /\ (sync.before[key] # Null /\ sync.before[key].data = data) =>
                        sync.table[key] = sync.before[key]
        /\ sync.loaderCalls = 1
        /\ sync.inserts <= 1
        /\ sync.updates <= 1

\* the effect e has been cleaned up and nothing of it is pending any more
Settled(e) ==
    /\ canvas.effects[e].cleaned
    /\ canvas.effects[e].image # "loading"
    /\ canvas.effects[e].tween # "fadeOut"

\* C29 (as claimed): once an effect is cleaned up and its image load and its
\* fade-out have come to an end, its bitmap is not a child of the stage and its
\* resize listener is not registered, also when the cleanup ran before the
\* image had loaded
C29_CleanedUpBitmapIsGone ==
    canvas # Idle =>
        \A e \in 1..Len(canvas.effects) :
            Settled(e) => (e \notin canvas.children /\ e \notin canvas.listeners)

\* the fetches of useFetch that make a step
SteppingFetches ==
    {i \in 1..Len(fetcher.fetches) : fetcher'.fetches[i].phase # fetcher.fetches[i].phase}

\* C30 (as claimed): a step of a canceled fetch, whether its response arrives,
\* its body is read or it fails, leaves the response state as it is
C30_CanceledFetchWritesNothing ==
    [][\A i \in SteppingFetches :
          fetcher.fetches[i].canceled => fetcher'.response = fetcher.response]_vars

====
